---- MODULE Spec2Model ----
(***************************************************************************)
(* Model of fractic-io/rust-aws-cognito: CognitoUtil (src/src/util.rs),    *)
(* its environment configuration (src/src/env.rs) and its callout error    *)
(* (src/src/errors.rs).                                                    *)
(*                                                                         *)
(* A CognitoUtil owns a client and an env.  Every public operation is one  *)
(* action; the remote calls it issues are recorded, in order and with the  *)
(* client's answers, in `calls`, and its return value in `result`.         *)
(***************************************************************************)
EXTENDS Integers, Sequences, FiniteSets, TLC

VARIABLES env, util, op, arg, calls, result

vars == <<env, util, op, arg, calls, result>>

----------------------------------------------------------------------------
(* Program constants.                                                      *)

EMAIL_ATTRIBUTE == "email"
USER_SUB_ATTRIBUTE == "sub"
COGNITO_REGION == "COGNITO_REGION"
COGNITO_USER_POOL_ID == "COGNITO_USER_POOL_ID"
LIST_LIMIT == 1

\* The keys of CognitoEnvConfig.
CognitoEnvConfig == {COGNITO_REGION, COGNITO_USER_POOL_ID}

----------------------------------------------------------------------------
(* Values: Option<String>, Option<Vec<UserType>>, Result<_, ServerError>.  *)

NoneStr == [some |-> FALSE, v |-> ""]
SomeStr(s) == [some |-> TRUE, v |-> s]

NoneUsers == [some |-> FALSE, v |-> <<>>]
SomeUsers(us) == [some |-> TRUE, v |-> us]

\* UserType: the only field the program reads is username.
UserType(username) == [username |-> username]

\* Ok(Option<String>), Ok(()) and Err(ServerError of some kind).
OkOption(o) == [tag |-> "Ok", kind |-> "Option", val |-> o, debug |-> ""]
OkUnit == [tag |-> "Ok", kind |-> "Unit", val |-> NoneStr, debug |-> ""]
Err(kind, debug) == [tag |-> "Err", kind |-> kind, val |-> NoneStr, debug |-> debug]
NoResult == [tag |-> "None", kind |-> "None", val |-> NoneStr, debug |-> ""]

\* CognitoCalloutError::with_debug(&e): one opaque kind, the SDK error's
\* description kept as debug context.
CognitoCalloutError(e) == Err("CognitoCalloutError", e)

\* CriticalError::new(msg).
CriticalError(msg) == Err("CriticalError", msg)

\* The answers of the client: Result<ListUsersOutput, SdkError> and
\* Result<AdminDeleteUserAttributesOutput, SdkError>.
ListUsersOutput(users) == [tag |-> "Ok", users |-> users, err |-> ""]
AdminDeleteUserAttributesOutput == [tag |-> "Ok", users |-> NoneUsers, err |-> ""]
SdkError(e) == [tag |-> "Err", users |-> NoneUsers, err |-> e]

----------------------------------------------------------------------------
(* Inputs.                                                                 *)

Regions == {"us-east-1"}
UserPoolIds == {"us-east-1_123456789", "eu-west-1_987654321"}
Emails == {"abc@example.com", "a\"b@example.com", ""}
UserSubs == {"sub-0001", "x\" or sub ^= \""}
Usernames == {"username", "alice", ""}
SdkErrors == {"DispatchFailure", "ServiceError"}

OptionOf(S) == {NoneStr} \cup {SomeStr(s) : s \in S}

\* Every EnvVariables<CognitoEnvConfig>: each key absent or set.
Envs ==
  {[k \in CognitoEnvConfig |->
      IF k = COGNITO_REGION THEN r ELSE p] :
        r \in OptionOf(Regions), p \in OptionOf(UserPoolIds)}

\* env.get(&key): the value, or a configuration error naming the key.
EnvGet(e, key) ==
  IF e[key].some THEN [tag |-> "Ok", kind |-> "String", val |-> e[key], debug |-> ""]
  ELSE Err("ConfigError", key)

----------------------------------------------------------------------------
(* The client.                                                             *)

NoUtil == [client |-> "none", should_find_user |-> FALSE, env |-> [k \in CognitoEnvConfig |-> NoneStr]]

\* Vectors of at most n user records.
RECURSIVE UsersUpTo(_)
UsersUpTo(n) ==
  IF n = 0 THEN {<<>>}
  ELSE LET shorter == UsersUpTo(n - 1)
       IN shorter \cup {Append(us, UserType(u)) :
                          us \in {s \in shorter : Len(s) = n - 1},
                          u \in OptionOf(Usernames)}

\* What list_users can answer.  The real client sends the request with the
\* given limit and returns whatever the provider answers: a transport or
\* service failure, or at most `limit` records.  The mock returns one record
\* named "username", or an output without a users list.
ListUsersAnswers(u, limit) ==
  IF u.client = "mock"
  THEN {IF u.should_find_user
        THEN ListUsersOutput(SomeUsers(<<UserType(SomeStr("username"))>>))
        ELSE ListUsersOutput(NoneUsers)}
  ELSE {SdkError(e) : e \in SdkErrors}
       \cup {ListUsersOutput(NoneUsers)}
       \cup {ListUsersOutput(SomeUsers(us)) : us \in UsersUpTo(limit)}

\* What admin_delete_user_attributes can answer.
AdminDeleteAnswers(u) ==
  IF u.client = "mock"
  THEN {AdminDeleteUserAttributesOutput}
  ELSE {AdminDeleteUserAttributesOutput} \cup {SdkError(e) : e \in SdkErrors}

\* One recorded invocation of a CognitoClient method with its answer.
ListUsersCall(user_pool_id, filter, limit, resp) ==
  [method |-> "list_users", user_pool_id |-> user_pool_id, filter |-> filter,
   limit |-> limit, username |-> "", attributes |-> <<>>, resp |-> resp]

AdminDeleteCall(user_pool_id, username, attributes, resp) ==
  [method |-> "admin_delete_user_attributes", user_pool_id |-> user_pool_id,
   filter |-> "", limit |-> 0, username |-> username,
   attributes |-> attributes, resp |-> resp]

----------------------------------------------------------------------------
(* CognitoUtil.                                                            *)

\* Variant: the filter written without the blanks around '='.
FilterExprNoBlanks(attribute, value) == attribute \o "=\"" \o value \o "\""

\* format!("{} = \"{}\"", attribute, value)
FilterExpr(attribute, value) == attribute \o " = \"" \o value \o "\""

\* format!("User found but username is missing (attribute: '{}', value: '{}').", ..)
MissingUsernameMsg(attribute, value) ==
  "User found but username is missing (attribute: '" \o attribute
    \o "', value: '" \o value \o "')."

\* response.users.unwrap_or_default()
UnwrapOrDefault(users) == IF users.some THEN users.v ELSE <<>>

\* Vec::pop(): the last element, if any.
Pop(us) == IF Len(us) = 0 THEN [some |-> FALSE, v |-> UserType(NoneStr)]
           ELSE [some |-> TRUE, v |-> us[Len(us)]]

\* Variant: returns the value searched for instead of the record's username.
UnwrapResponseReturnsValue(resp, attribute, value) ==
  LET popped == Pop(UnwrapOrDefault(resp.users))
  IN IF ~popped.some THEN OkOption(NoneStr)
     ELSE IF popped.v.username.some THEN OkOption(SomeStr(value))
     ELSE CriticalError(MissingUsernameMsg(attribute, value))

\* Variant: an empty answer is reported as an error.
UnwrapResponseNotFoundIsError(resp, attribute, value) ==
  LET popped == Pop(UnwrapOrDefault(resp.users))
  IN IF ~popped.some THEN CriticalError("User not found.")
     ELSE IF popped.v.username.some THEN OkOption(SomeStr(popped.v.username.v))
     ELSE CriticalError(MissingUsernameMsg(attribute, value))

\* Variant: a record without username is flattened to None.
UnwrapResponseMissingIsNone(resp, attribute, value) ==
  LET popped == Pop(UnwrapOrDefault(resp.users))
  IN IF ~popped.some THEN OkOption(NoneStr)
     ELSE IF popped.v.username.some THEN OkOption(SomeStr(popped.v.username.v))
     ELSE OkOption(NoneStr)

\* .pop().map(|user| user.username.ok_or(CriticalError)).transpose()
UnwrapResponse(resp, attribute, value) ==
  LET popped == Pop(UnwrapOrDefault(resp.users))
  IN IF ~popped.some THEN OkOption(NoneStr)
     ELSE IF popped.v.username.some THEN OkOption(SomeStr(popped.v.username.v))
     ELSE CriticalError(MissingUsernameMsg(attribute, value))

\* Variant: a missing user-pool id defaults to the empty string.
GetUsernameFromAttributeDefaultPool(u, attribute, value, lu) ==
  LET user_pool_id == EnvGet(u.env, COGNITO_USER_POOL_ID)
      call == ListUsersCall(user_pool_id.val.v,
                            FilterExpr(attribute, value), LIST_LIMIT, lu)
  IN IF lu.tag = "Err"
     THEN [result |-> CognitoCalloutError(lu.err), calls |-> <<call>>]
     ELSE [result |-> UnwrapResponse(lu, attribute, value), calls |-> <<call>>]

\* Variant: a failed list_users is taken for an empty answer.
GetUsernameFromAttributeSwallowsError(u, attribute, value, lu) ==
  LET user_pool_id == EnvGet(u.env, COGNITO_USER_POOL_ID)
  IN IF user_pool_id.tag = "Err"
     THEN [result |-> user_pool_id, calls |-> <<>>]
     ELSE LET call == ListUsersCall(user_pool_id.val.v,
                                    FilterExpr(attribute, value), LIST_LIMIT, lu)
          IN IF lu.tag = "Err"
             THEN [result |-> OkOption(NoneStr), calls |-> <<call>>]
             ELSE [result |-> UnwrapResponse(lu, attribute, value),
                   calls |-> <<call>>]

\* get_username_from_attribute(attribute, value), given the answer `lu` the
\* client gives to list_users.  Yields the return value and the calls made.
GetUsernameFromAttribute(u, attribute, value, lu) ==
  LET user_pool_id == EnvGet(u.env, COGNITO_USER_POOL_ID)
  IN IF user_pool_id.tag = "Err"
     THEN [result |-> user_pool_id, calls |-> <<>>]
     ELSE LET call == ListUsersCall(user_pool_id.val.v,
                                    FilterExpr(attribute, value), LIST_LIMIT, lu)
          IN IF lu.tag = "Err"
             THEN [result |-> CognitoCalloutError(lu.err), calls |-> <<call>>]
             ELSE [result |-> UnwrapResponse(lu, attribute, value),
                   calls |-> <<call>>]

\* get_username_from_email(email)
GetUsernameFromEmailFn(u, email, lu) ==
  GetUsernameFromAttribute(u, EMAIL_ATTRIBUTE, email, lu)

\* The tail of delete_email_for_user once a username is found, with the
\* attribute list and the number of attempts as parameters of the variants.
DeleteTail(user_pool_id, found, username, attributes, del, attempts) ==
  LET call == AdminDeleteCall(user_pool_id, username, attributes, del)
      made == IF del.tag = "Err" /\ attempts = 2
              THEN Append(Append(found.calls, call), call)
              ELSE Append(found.calls, call)
  IN IF del.tag = "Err"
     THEN [result |-> CognitoCalloutError(del.err), calls |-> made]
     ELSE [result |-> OkUnit, calls |-> made]

\* Variant: the delete is issued also when no user was found.
DeleteEmailForUserAlwaysDeletes(u, user_sub, lu, del) ==
  LET user_pool_id == EnvGet(u.env, COGNITO_USER_POOL_ID)
  IN IF user_pool_id.tag = "Err"
     THEN [result |-> user_pool_id, calls |-> <<>>]
     ELSE LET found == GetUsernameFromAttribute(u, USER_SUB_ATTRIBUTE, user_sub, lu)
          IN IF found.result.tag = "Err"
             THEN found
             ELSE DeleteTail(user_pool_id.val.v, found, found.result.val.v,
                             <<EMAIL_ATTRIBUTE>>, del, 1)

\* Variant: the delete names the attribute that was searched by.
DeleteEmailForUserDeletesSub(u, user_sub, lu, del) ==
  LET user_pool_id == EnvGet(u.env, COGNITO_USER_POOL_ID)
  IN IF user_pool_id.tag = "Err"
     THEN [result |-> user_pool_id, calls |-> <<>>]
     ELSE LET found == GetUsernameFromAttribute(u, USER_SUB_ATTRIBUTE, user_sub, lu)
          IN IF found.result.tag = "Err"
             THEN found
             ELSE IF ~found.result.val.some
             THEN [result |-> OkUnit, calls |-> found.calls]
             ELSE DeleteTail(user_pool_id.val.v, found, found.result.val.v,
                             <<USER_SUB_ATTRIBUTE>>, del, 1)

\* Variant: a failed delete is attempted a second time.
DeleteEmailForUserRetries(u, user_sub, lu, del) ==
  LET user_pool_id == EnvGet(u.env, COGNITO_USER_POOL_ID)
  IN IF user_pool_id.tag = "Err"
     THEN [result |-> user_pool_id, calls |-> <<>>]
     ELSE LET found == GetUsernameFromAttribute(u, USER_SUB_ATTRIBUTE, user_sub, lu)
          IN IF found.result.tag = "Err"
             THEN found
             ELSE IF ~found.result.val.some
             THEN [result |-> OkUnit, calls |-> found.calls]
             ELSE DeleteTail(user_pool_id.val.v, found, found.result.val.v,
                             <<EMAIL_ATTRIBUTE>>, del, 2)

\* delete_email_for_user(user_sub), given the answers `lu` and `del` the
\* client gives to list_users and admin_delete_user_attributes.
DeleteEmailForUserFn(u, user_sub, lu, del) ==
  LET user_pool_id == EnvGet(u.env, COGNITO_USER_POOL_ID)
  IN IF user_pool_id.tag = "Err"
     THEN [result |-> user_pool_id, calls |-> <<>>]
     ELSE LET found == GetUsernameFromAttribute(u, USER_SUB_ATTRIBUTE, user_sub, lu)
          IN IF found.result.tag = "Err"
             THEN found
             ELSE IF ~found.result.val.some
             THEN [result |-> OkUnit, calls |-> found.calls]
             ELSE LET call == AdminDeleteCall(user_pool_id.val.v,
                                              found.result.val.v,
                                              <<EMAIL_ATTRIBUTE>>, del)
                  IN IF del.tag = "Err"
                     THEN [result |-> CognitoCalloutError(del.err),
                           calls |-> Append(found.calls, call)]
                     ELSE [result |-> OkUnit,
                           calls |-> Append(found.calls, call)]

\* Variant: a missing region falls back to the SDK's default region.
NewFnDefaultRegion(e) ==
  [result |-> OkUnit,
   util |-> [client |-> "real", should_find_user |-> FALSE, env |-> e]]

\* CognitoUtil::new(env): reads the region, builds the real client.
NewFn(e) ==
  LET region_str == EnvGet(e, COGNITO_REGION)
  IN IF region_str.tag = "Err"
     THEN [result |-> region_str, util |-> NoUtil]
     ELSE [result |-> OkUnit,
           util |-> [client |-> "real", should_find_user |-> FALSE, env |-> e]]

\* CognitoUtil { client: MockCognitoClient { should_find_user }, env }
MockUtil(e, should_find_user) ==
  [client |-> "mock", should_find_user |-> should_find_user, env |-> e]

----------------------------------------------------------------------------
(* The state machine.                                                      *)

Init ==
  /\ env \in Envs
  /\ util = NoUtil
  /\ op = "init"
  /\ arg = ""
  /\ calls = <<>>
  /\ result = NoResult

\* CognitoUtil::new(env).await
New ==
  LET r == NewFn(env)
  IN /\ op' = "new"
     /\ arg' = ""
     /\ calls' = <<>>
     /\ result' = r.result
     /\ util' = IF r.result.tag = "Ok" THEN r.util ELSE util
     /\ UNCHANGED env

\* The struct literal of the tests: a util over the mock client.
NewMock ==
  \E should_find_user \in BOOLEAN :
     /\ op' = "mock"
     /\ arg' = ""
     /\ calls' = <<>>
     /\ result' = OkUnit
     /\ util' = MockUtil(env, should_find_user)
     /\ UNCHANGED env

\* cognito.get_username_from_email(email).await
GetUsernameFromEmail ==
  /\ util.client # "none"
  /\ \E email \in Emails :
       \E lu \in ListUsersAnswers(util, LIST_LIMIT) :
          LET r == GetUsernameFromEmailFn(util, email, lu)
          IN /\ op' = "get_username_from_email"
             /\ arg' = email
             /\ calls' = r.calls
             /\ result' = r.result
  /\ UNCHANGED <<env, util>>

\* cognito.delete_email_for_user(user_sub).await
DeleteEmailForUser ==
  /\ util.client # "none"
  /\ \E user_sub \in UserSubs :
       \E lu \in ListUsersAnswers(util, LIST_LIMIT) :
         \E del \in AdminDeleteAnswers(util) :
          LET r == DeleteEmailForUserFn(util, user_sub, lu, del)
          IN /\ op' = "delete_email_for_user"
             /\ arg' = user_sub
             /\ calls' = r.calls
             /\ result' = r.result
  /\ UNCHANGED <<env, util>>

Next == New \/ NewMock \/ GetUsernameFromEmail \/ DeleteEmailForUser

Spec == Init /\ [][Next]_vars

----------------------------------------------------------------------------
(* Properties.                                                             *)

PoolConfigured == util.env[COGNITO_USER_POOL_ID].some
RegionConfigured == env[COGNITO_REGION].some
IsOperation == op \in {"get_username_from_email", "delete_email_for_user"}

\* The list_users answer of the current operation carries a record.
LookupAnswered == Len(calls) >= 1 /\ calls[1].method = "list_users"
                    /\ calls[1].resp.tag = "Ok"
AnsweredUsers == IF calls[1].resp.users.some THEN calls[1].resp.users.v ELSE <<>>
LookupMatched == LookupAnswered /\ Len(AnsweredUsers) >= 1
MatchedUsername == AnsweredUsers[Len(AnsweredUsers)].username

\* C1: with the user-pool id configured, when list_users succeeds with a
\* record whose username is present, get_username_from_email returns
\* Ok(Some(u)) with u exactly that record's username.
C1_LookupReturnsUsername ==
  (op = "get_username_from_email" /\ PoolConfigured /\ LookupAnswered)
    => \A i \in DOMAIN AnsweredUsers :
         AnsweredUsers[i].username.some
           => result = OkOption(SomeStr(AnsweredUsers[i].username.v))

C1_Witness ==
  /\ op = "get_username_from_email" /\ PoolConfigured /\ LookupMatched
  /\ MatchedUsername = SomeStr("alice")
  /\ arg = "abc@example.com"
  /\ result = OkOption(SomeStr("alice"))

\* C2: with the user-pool id configured, when list_users succeeds with no
\* records (users list absent or empty), get_username_from_email returns
\* Ok(None) and not an error.
C2_LookupNotFoundIsNone ==
  (op = "get_username_from_email" /\ PoolConfigured /\ LookupAnswered
     /\ Len(AnsweredUsers) = 0)
    => result = OkOption(NoneStr)

C2_Witness ==
  /\ op = "get_username_from_email" /\ PoolConfigured /\ LookupAnswered
  /\ calls[1].resp.users = SomeUsers(<<>>)
  /\ result = OkOption(NoneStr)

C4_MissingPoolIdFailsBeforeCalls ==
  (IsOperation /\ ~PoolConfigured)
    => /\ result = Err("ConfigError", "COGNITO_USER_POOL_ID")
       /\ calls = <<>>

C4_Witness ==
  /\ op = "get_username_from_email" /\ ~PoolConfigured
  /\ util.client = "real"
  /\ result.kind = "ConfigError"

\* C5: when the lookup by sub succeeds with no matching user,
\* delete_email_for_user returns Ok(()) and issues no
\* admin_delete_user_attributes call.
C5_DeleteNoUserIsNoOp ==
  (op = "delete_email_for_user" /\ LookupAnswered /\ Len(AnsweredUsers) = 0)
    => /\ result = OkUnit
       /\ \A i \in DOMAIN calls : calls[i].method # "admin_delete_user_attributes"

C5_Witness ==
  /\ op = "delete_email_for_user" /\ LookupAnswered /\ Len(AnsweredUsers) = 0
  /\ util.client = "real"
  /\ result = OkUnit

\* C6: when the lookup by sub resolves to a username u,
\* delete_email_for_user issues exactly one admin_delete_user_attributes
\* call, for username u, attributes ["email"], and the configured
\* user-pool id, which is also the one passed to list_users.
C6_DeleteIssuesOneCall ==
  (op = "delete_email_for_user" /\ LookupMatched /\ MatchedUsername.some)
    => /\ Cardinality({i \in DOMAIN calls :
                         calls[i].method = "admin_delete_user_attributes"}) = 1
       /\ Len(calls) = 2
       /\ calls[2].method = "admin_delete_user_attributes"
       /\ calls[2].username = MatchedUsername.v
       /\ calls[2].attributes = <<"email">>
       /\ calls[2].user_pool_id = util.env[COGNITO_USER_POOL_ID].v
       /\ calls[2].user_pool_id = calls[1].user_pool_id

C6_Witness ==
  /\ op = "delete_email_for_user" /\ LookupMatched
  /\ MatchedUsername = SomeStr("alice")
  /\ Len(calls) = 2 /\ calls[2].username = "alice"

\* C7: the filter passed to list_users is the attribute name, then ' = "',
\* then the value unchanged, then '"', with limit 1; the attribute is
\* "email" and the value the email for get_username_from_email, "sub" and
\* the subject identifier for delete_email_for_user.
C7_FilterString ==
  /\ (IsOperation /\ PoolConfigured)
       => Len(calls) >= 1 /\ calls[1].method = "list_users"
  /\ \A i \in DOMAIN calls :
       calls[i].method = "list_users"
         => /\ calls[i].limit = 1
            /\ op = "get_username_from_email"
                 => calls[i].filter = "email" \o " = \"" \o arg \o "\""
            /\ op = "delete_email_for_user"
                 => calls[i].filter = "sub" \o " = \"" \o arg \o "\""
            /\ (op = "get_username_from_email" /\ arg = "abc@example.com")
                 => calls[i].filter = "email = \"abc@example.com\""
            /\ (op = "get_username_from_email" /\ arg = "a\"b@example.com")
                 => calls[i].filter = "email = \"a\"b@example.com\""
            /\ (op = "delete_email_for_user" /\ arg = "sub-0001")
                 => calls[i].filter = "sub = \"sub-0001\""

C7_Witness ==
  /\ op = "get_username_from_email" /\ arg = "a\"b@example.com"
  /\ Len(calls) = 1
  /\ calls[1].filter = "email = \"a\"b@example.com\""

IsConfigError(r, key) == r = Err("ConfigError", key)

\* C8 as amended: with the user-pool id absent every operation fails with a
\* configuration error naming it and makes no remote call; with the region
\* absent CognitoUtil::new fails with a configuration error naming it, so
\* that no util over the real client exists and no call reaches the network.
C8_MissingConfigFailsBeforeNetwork ==
  /\ (IsOperation /\ ~PoolConfigured)
       => IsConfigError(result, "COGNITO_USER_POOL_ID") /\ calls = <<>>
  /\ (op = "new" /\ ~RegionConfigured)
       => IsConfigError(result, "COGNITO_REGION") /\ calls = <<>>
  /\ ~RegionConfigured => util.client # "real"
  /\ (util.client = "real" /\ calls # <<>>)
       => util.env[COGNITO_REGION].some /\ PoolConfigured

C8_Witness ==
  /\ op = "new" /\ ~RegionConfigured
  /\ IsConfigError(result, "COGNITO_REGION")
  /\ util.client = "none"

\* C8 as claimed: with either configuration value absent every operation
\* fails with a configuration error and reaches no list_users or
\* admin_delete_user_attributes call.
C8_Original ==
  (IsOperation /\ (~RegionConfigured \/ ~PoolConfigured))
    => /\ result.tag = "Err" /\ result.kind = "ConfigError"
       /\ calls = <<>>

Methods(cs) == [i \in DOMAIN cs |-> cs[i].method]

\* C9: the remote calls of one operation are none, [list_users] or
\* [list_users, admin_delete_user_attributes]; get_username_from_email
\* issues no delete call; a delete call follows a list_users call of the
\* same operation that succeeded and yielded a username; no call is issued
\* twice.
C9_CallSequence ==
  /\ Methods(calls) \in {<<>>, <<"list_users">>,
                         <<"list_users", "admin_delete_user_attributes">>}
  /\ ~IsOperation => calls = <<>>
  /\ op = "get_username_from_email"
       => \A i \in DOMAIN calls : calls[i].method # "admin_delete_user_attributes"
  /\ \A i \in DOMAIN calls :
       calls[i].method = "admin_delete_user_attributes"
         => /\ i = 2
            /\ LookupMatched
            /\ MatchedUsername.some
            /\ calls[i].username = MatchedUsername.v
  /\ \A i, j \in DOMAIN calls : calls[i].method = calls[j].method => i = j

C9_Witness ==
  /\ op = "delete_email_for_user"
  /\ Methods(calls) = <<"list_users", "admin_delete_user_attributes">>
  /\ calls[2].resp.tag = "Err"

\* C10: a failure of list_users or of admin_delete_user_attributes makes the
\* operation return a callout error carrying that failure, never another
\* error kind or an Ok; when the lookup inside delete_email_for_user fails
\* or yields a critical error, that error is returned and no
\* admin_delete_user_attributes call is issued.
C10_FailurePropagates ==
  /\ \A i \in DOMAIN calls :
       calls[i].resp.tag = "Err"
         => /\ i = Len(calls)
            /\ result.tag = "Err"
            /\ result.kind = "CognitoCalloutError"
            /\ result.debug = calls[i].resp.err
  /\ (op = "delete_email_for_user" /\ Len(calls) >= 1
        /\ calls[1].resp.tag = "Err")
       => Len(calls) = 1 /\ result = Err("CognitoCalloutError", calls[1].resp.err)
  /\ (op = "delete_email_for_user" /\ LookupMatched /\ ~MatchedUsername.some)
       => Len(calls) = 1 /\ result.tag = "Err" /\ result.kind = "CriticalError"

C10_Witness ==
  /\ op = "delete_email_for_user"
  /\ Len(calls) = 1
  /\ calls[1].resp = SdkError("ServiceError")
  /\ result = Err("CognitoCalloutError", "ServiceError")

====
